---- MODULE Spec2Model ----
(***************************************************************************)
(* Model of pkg/discovery/dht.go (edgevpn): the DHT discovery session.     *)
(*                                                                         *)
(* Processes: the thread calling Run, the libp2p routing Option callback   *)
(* (both go through startDHT), the refresh goroutine started by Run, the   *)
(* per-peer goroutines of bootstrapPeers, and the environment (clock,      *)
(* context cancellation, the runtime's timer, other activity on the host   *)
(* changing connection state).  Every call into libp2p (dht.New,           *)
(* Bootstrap, Advertise, FindPeers, Connect) has a nondeterministic        *)
(* outcome.                                                                *)
(***************************************************************************)
EXTENDS Integers, Sequences, FiniteSets, TLC

\* ---------------------------------------------------------------- bounds
MaxTime == 3
MaxCycles == 2
MaxBoot == 2
MaxStream == 2
MaxOptCalls == 1

\* ------------------------------------------------------------- constants
DefaultKeyLength == 12

\* -------------------------------------------------------------- universe
HostID == "h"
PeerIDs == {"p1", "p2"}
Procs == {"opt", "run"}

\* A multiaddr of the bootstrap list: its transport part and its /p2p part
\* (id = "" when the address carries no /p2p component).
Addrs == { [transport |-> "t", id |-> i] : i \in PeerIDs \cup {""} }
DefaultBootstrapPeers == << [transport |-> "t", id |-> "p1"] >>

\* What the lookup stream can yield: any identity, with or without addresses.
PeerInfos == [ID : PeerIDs \cup {HostID}, NAddrs : 0..1]
NoPeer == [ID |-> "", NAddrs |-> 0]

RefreshTimes == {0, 1}
OTPKeys == {"", "K"}
OTPIntervals == {2}
KeyLengths == {0}
RendezvousString == "static"

RECURSIVE SeqsUpTo(_, _)
SeqsUpTo(S, n) ==
    IF n = 0 THEN { <<>> }
    ELSE LET shorter == SeqsUpTo(S, n - 1)
         IN  shorter \cup { Append(s, x) : s \in { t \in shorter : Len(t) = n - 1 }, x \in S }

VARIABLES
    \* configuration and fields of the DHT struct
    OTPKey, OTPInterval, KeyLength, BootstrapPeers, latestRendezvous, RefreshDiscoveryTime, dht,
    \* startDHT activations (one per calling process)
    spc, kad, sret, newCount, optCalls,
    \* Run
    rpc, kademliaDHT, bootErr,
    \* environment
    now, ctxDone, connected, crashed,
    \* the refresh goroutine and its timer
    lpc, cycles, timerState, deadline,
    \* bootstrapPeers workers
    wpc, winfo, wchk, wres,
    \* announceAndConnect activation
    apc, rvArg, cur, achk, adec, annRes, advFailed, findFailed, nProc, nAtt, connFailed, inFlight,
    \* history of the current session (ghost state read only by the properties)
    lastStart, lastEnd, armedAt, cancelledWaiting, prevPass, rotated,
    prevArg, extCalled, lookupFailed, passes, genRv

cfgVars == << OTPKey, OTPInterval, KeyLength, BootstrapPeers, latestRendezvous, RefreshDiscoveryTime >>
startVars == << dht, spc, kad, sret, newCount, optCalls >>
runVars == << rpc, kademliaDHT, bootErr >>
envVars == << now, ctxDone, connected, crashed >>
loopVars == << lpc, cycles, timerState, deadline >>
workVars == << wpc, winfo, wchk, wres >>
annVars == << apc, rvArg, cur, achk, adec, annRes, advFailed, findFailed, nProc, nAtt, connFailed,
             inFlight >>
histVars == << lastStart, lastEnd, armedAt, cancelledWaiting, prevPass, rotated,
              prevArg, extCalled, lookupFailed, passes, genRv >>

vars == << cfgVars, startVars, runVars, envVars, loopVars, workVars, annVars, histVars >>

Workers == 1..MaxBoot

\* ---------------------------------------------------------------- helpers

\* peer.AddrInfoFromP2pAddr: nil (and an error, dropped by the caller) when
\* the address has no /p2p component, else the identity and its address.
AddrInfoFromP2pAddr(m) ==
    IF m.id = "" THEN [nil |-> TRUE, ID |-> "", NAddrs |-> 0]
    ELSE [nil |-> FALSE, ID |-> m.id, NAddrs |-> 1]

\* host.Network().Connectedness(id)
Connectedness(id) == IF id \in connected THEN "Connected" ELSE "NotConnected"

\* gotp TOTP.Now(): the code of the current rotation window, KeyLength digits.
TOTPNow == << "otp", now \div OTPInterval, KeyLength >>
NoRendezvous == << "", 0, 0 >>
StaticRendezvous == << RendezvousString, 0, 0 >>

\* NewDHT (lines 47-49) and the fields the caller sets before Run: the
\* unexported fields start at their zero values.
InitCfg(keys, lists, refreshes) ==
    /\ OTPKey \in keys
    /\ OTPInterval \in OTPIntervals
    /\ KeyLength \in KeyLengths
    /\ BootstrapPeers \in lists
    /\ latestRendezvous = NoRendezvous
    /\ RefreshDiscoveryTime \in refreshes
    /\ dht = 0
    /\ spc = [p \in Procs |-> "idle"]
    /\ kad = [p \in Procs |-> 0]
    /\ sret = [p \in Procs |-> [h |-> 0, err |-> FALSE]]
    /\ newCount = 0
    /\ optCalls = 0
    /\ rpc = "init"
    /\ kademliaDHT = 0
    /\ bootErr = FALSE
    /\ now = 0
    /\ ctxDone = FALSE
    /\ connected = {}
    /\ crashed = FALSE
    /\ lpc = "none"
    /\ cycles = 0
    /\ timerState = "none"
    /\ deadline = 0
    /\ wpc = [i \in Workers |-> "none"]
    /\ winfo = [i \in Workers |-> AddrInfoFromP2pAddr([transport |-> "t", id |-> ""])]
    /\ wchk = [i \in Workers |-> "none"]
    /\ wres = [i \in Workers |-> "none"]
    /\ apc = "idle"
    /\ rvArg = NoRendezvous
    /\ cur = NoPeer
    /\ achk = "none"
    /\ adec = "none"
    /\ annRes = "none"
    /\ advFailed = FALSE
    /\ findFailed = FALSE
    /\ nProc = 0
    /\ nAtt = 0
    /\ connFailed = FALSE
    /\ inFlight = 0
    /\ lastStart = 0
    /\ lastEnd = 0
    /\ armedAt = 0
    /\ cancelledWaiting = FALSE
    /\ prevPass = "none"
    /\ rotated = FALSE
    /\ prevArg = NoRendezvous
    /\ extCalled = "no"
    /\ lookupFailed = FALSE
    /\ passes = 0
    /\ genRv = NoRendezvous

Init == InitCfg(OTPKeys, SeqsUpTo(Addrs, MaxBoot), RefreshTimes)

\* ------------------------------------------------------------- startDHT
\* One activation per calling process p; the steps are the reads and writes
\* of the shared field d.dht, which no lock protects.

\* (variant) no lazy-initialisation test: every call constructs
DhtIsNilAlways(h) == TRUE

\* line 70: if d.dht == nil
DhtIsNil(h) == h = 0

\* entry and the nil test of line 70
StartTest(p) ==
    /\ ~crashed
    /\ spc[p] = "test"
    /\ IF DhtIsNil(dht)
       THEN /\ spc' = [spc EXCEPT ![p] = "new"]
            /\ sret' = sret
       ELSE /\ spc' = [spc EXCEPT ![p] = "ret"]
            /\ sret' = [sret EXCEPT ![p] = [h |-> dht, err |-> FALSE]]
    /\ UNCHANGED << dht, kad, newCount, optCalls >>
    /\ UNCHANGED << cfgVars, runVars, envVars, loopVars, workVars, annVars, histVars >>

\* line 75-78: kad, err := dht.New(...); on error return d.dht, err
StartNew(p) ==
    /\ ~crashed
    /\ spc[p] = "new"
    /\ \E ok \in BOOLEAN :
          IF ok
          THEN /\ newCount' = newCount + 1
               /\ kad' = [kad EXCEPT ![p] = newCount + 1]
               /\ spc' = [spc EXCEPT ![p] = "assign"]
               /\ sret' = sret
          ELSE /\ spc' = [spc EXCEPT ![p] = "ret"]
               /\ sret' = [sret EXCEPT ![p] = [h |-> dht, err |-> TRUE]]
               /\ UNCHANGED << newCount, kad >>
    /\ UNCHANGED << dht, optCalls >>
    /\ UNCHANGED << cfgVars, runVars, envVars, loopVars, workVars, annVars, histVars >>

\* line 79: d.dht = kad
StartAssign(p) ==
    /\ ~crashed
    /\ spc[p] = "assign"
    /\ dht' = kad[p]
    /\ spc' = [spc EXCEPT ![p] = "read"]
    /\ UNCHANGED << kad, sret, newCount, optCalls >>
    /\ UNCHANGED << cfgVars, runVars, envVars, loopVars, workVars, annVars, histVars >>

\* line 82: return d.dht, nil
StartReturn(p) ==
    /\ ~crashed
    /\ spc[p] = "read"
    /\ sret' = [sret EXCEPT ![p] = [h |-> dht, err |-> FALSE]]
    /\ spc' = [spc EXCEPT ![p] = "ret"]
    /\ kad' = [kad EXCEPT ![p] = 0]
    /\ UNCHANGED << dht, newCount, optCalls >>
    /\ UNCHANGED << cfgVars, runVars, envVars, loopVars, workVars, annVars, histVars >>

\* lines 51-56: libp2p invokes the routing callback, which calls startDHT
OptionCall ==
    /\ ~crashed
    /\ spc["opt"] \in {"idle", "ret"}
    /\ optCalls < MaxOptCalls
    /\ optCalls' = optCalls + 1
    /\ spc' = [spc EXCEPT !["opt"] = "test"]
    /\ UNCHANGED << dht, kad, sret, newCount >>
    /\ UNCHANGED << cfgVars, runVars, envVars, loopVars, workVars, annVars, histVars >>

\* ------------------------------------------------------------------ Run

\* lines 86-98: default the key length and the bootstrap list, call startDHT
RunBegin ==
    /\ ~crashed
    /\ rpc = "init"
    /\ KeyLength' = IF KeyLength = 0 THEN DefaultKeyLength ELSE KeyLength
    /\ BootstrapPeers' = IF Len(BootstrapPeers) = 0 THEN DefaultBootstrapPeers
                         ELSE BootstrapPeers
    /\ spc' = [spc EXCEPT !["run"] = "test"]
    /\ rpc' = "startDHT"
    /\ UNCHANGED << OTPKey, OTPInterval, latestRendezvous, RefreshDiscoveryTime >>
    /\ UNCHANGED << dht, kad, sret, newCount, optCalls, kademliaDHT, bootErr >>
    /\ UNCHANGED << envVars, loopVars, workVars, annVars, histVars >>

\* lines 98-101: startDHT has returned
RunAfterStart ==
    /\ ~crashed
    /\ rpc = "startDHT"
    /\ spc["run"] = "ret"
    /\ IF sret["run"].err
       THEN /\ rpc' = "failed"
            /\ UNCHANGED kademliaDHT
       ELSE /\ rpc' = "bootstrap"
            /\ kademliaDHT' = sret["run"].h
    /\ UNCHANGED bootErr
    /\ UNCHANGED << cfgVars, startVars, envVars, loopVars, workVars, annVars, histVars >>

\* (variant) the error of kademliaDHT.Bootstrap is ignored
BootstrapAbortsNever(err) == FALSE

\* lines 106-108: Run returns the error of kademliaDHT.Bootstrap
BootstrapAborts(err) == err

\* lines 106-138: kademliaDHT.Bootstrap; on success start the goroutine
RunBootstrap ==
    /\ ~crashed
    /\ rpc = "bootstrap"
    /\ \E err \in BOOLEAN :
          /\ bootErr' = err
          /\ IF BootstrapAborts(err)
             THEN /\ rpc' = "failed"
                  /\ lpc' = lpc
             ELSE /\ rpc' = "returned"
                  /\ lpc' = "connect"
    /\ UNCHANGED << kademliaDHT, cycles, timerState, deadline >>
    /\ UNCHANGED << cfgVars, startVars, envVars, workVars, annVars, histVars >>

\* ------------------------------------------------------- bootstrapPeers

Launched == 1..Len(BootstrapPeers)
Running(i) == wpc[i] \in {"start", "checked", "dialing"}

\* (variant) the Connectedness test of line 150 left out
ShouldConnectAlways(c) == TRUE

\* line 150: the worker dials only when the peer is not reported Connected
ShouldConnect(c) == c # "Connected"

\* (variant) no wg.Wait at the end of bootstrapPeers
BootstrapJoinedNoWait == TRUE

\* (variant) the wait ends at the first Done (wg.Add(1) outside the loop)
BootstrapJoinedFirstDone == \E i \in Launched : wpc[i] = "done"

\* line 159: wg.Wait() returns when every launched worker has called Done
BootstrapJoined == \A i \in Launched : wpc[i] = "done"

\* (variant) a fixed-rate schedule: the next expiry counted from the start
\* of the cycle, as a ticker would
NewTimerDeadlineFixedRate(t) == lastStart + RefreshDiscoveryTime

\* (variant) a back-off: the wait doubled after a cycle whose lookup failed
NewTimerDeadlineBackoff(t) ==
    t + RefreshDiscoveryTime + (IF lookupFailed THEN RefreshDiscoveryTime ELSE 0)

\* line 127: time.NewTimer(d.RefreshDiscoveryTime), armed at time t
NewTimerDeadline(t) == t + RefreshDiscoveryTime

\* connect() is entered (line 121 or 133) and bootstrapPeers launches one
\* goroutine per entry of the list (lines 145-158), then blocks in wg.Wait
CycleStart(n) ==
    /\ ~crashed
    /\ lpc \in {"connect", "sel_timer"}
    /\ cycles' = n
    /\ lpc' = "boot"
    /\ winfo' = [i \in Workers |->
                   IF i \in Launched THEN AddrInfoFromP2pAddr(BootstrapPeers[i])
                   ELSE winfo[i]]
    /\ wpc' = [i \in Workers |-> IF i \in Launched THEN "start" ELSE wpc[i]]
    /\ wchk' = [i \in Workers |-> "none"]
    /\ wres' = [i \in Workers |-> "none"]
    /\ lastStart' = now
    /\ prevPass' = "none"
    /\ rotated' = FALSE
    /\ prevArg' = NoRendezvous
    /\ lookupFailed' = FALSE
    /\ passes' = 0
    /\ UNCHANGED << timerState, deadline, lastEnd, armedAt, cancelledWaiting, extCalled, genRv >>
    /\ UNCHANGED << cfgVars, startVars, runVars, envVars, annVars >>

\* one of the first MaxCycles cycles, counted
CycleBegin ==
    /\ cycles < MaxCycles
    /\ CycleStart(cycles + 1)

\* a later cycle: the loop of lines 123-135 has no last iteration, the
\* count stays at MaxCycles
CycleRepeat ==
    /\ cycles = MaxCycles
    /\ CycleStart(cycles)

\* line 150: the goroutine evaluates peerinfo.ID (a nil dereference panics
\* and takes the process down) and asks the host for the connectedness
WorkerCheck(i) ==
    /\ ~crashed
    /\ wpc[i] = "start"
    /\ IF winfo[i].nil
       THEN /\ crashed' = TRUE
            /\ wpc' = [wpc EXCEPT ![i] = "panicked"]
            /\ UNCHANGED << wchk, wres >>
       ELSE /\ crashed' = crashed
            /\ wchk' = [wchk EXCEPT ![i] = Connectedness(winfo[i].ID)]
            /\ IF ShouldConnect(Connectedness(winfo[i].ID))
               THEN /\ wpc' = [wpc EXCEPT ![i] = "checked"]
                    /\ wres' = wres
               ELSE /\ wpc' = [wpc EXCEPT ![i] = "done"]
                    /\ wres' = [wres EXCEPT ![i] = "skipped"]
    /\ UNCHANGED << winfo, now, ctxDone, connected >>
    /\ UNCHANGED << cfgVars, startVars, runVars, loopVars, annVars, histVars >>

\* line 151: host.Connect is invoked
WorkerConnect(i) ==
    /\ ~crashed
    /\ wpc[i] = "checked"
    /\ wpc' = [wpc EXCEPT ![i] = "dialing"]
    /\ UNCHANGED << winfo, wchk, wres >>
    /\ UNCHANGED << cfgVars, startVars, runVars, envVars, loopVars, annVars, histVars >>

\* lines 151-155 and the deferred wg.Done: host.Connect returns
WorkerDone(i) ==
    /\ ~crashed
    /\ wpc[i] = "dialing"
    /\ \E ok \in BOOLEAN :
          /\ connected' = IF ok THEN connected \cup {winfo[i].ID} ELSE connected
          /\ wres' = [wres EXCEPT ![i] = IF ok THEN "ok" ELSE "failed"]
    /\ wpc' = [wpc EXCEPT ![i] = "done"]
    /\ UNCHANGED << winfo, wchk, now, ctxDone, crashed >>
    /\ UNCHANGED << cfgVars, startVars, runVars, loopVars, annVars, histVars >>

\* line 159-160: wg.Wait returns and bootstrapPeers returns
BootstrapJoin ==
    /\ ~crashed
    /\ lpc = "boot"
    /\ BootstrapJoined
    /\ lpc' = "joined"
    /\ UNCHANGED << cycles, timerState, deadline >>
    /\ UNCHANGED << cfgVars, startVars, runVars, envVars, workVars, annVars, histVars >>

\* ---------------------------------------------------- the body of connect

\* what announceAndConnect starts from
AnnEnter(rv) ==
    /\ apc' = "adv"
    /\ rvArg' = rv
    /\ cur' = NoPeer
    /\ achk' = "none"
    /\ adec' = "none"
    /\ annRes' = "none"
    /\ advFailed' = FALSE
    /\ findFailed' = FALSE
    /\ nProc' = 0
    /\ nAtt' = 0
    /\ connFailed' = FALSE
    /\ inFlight' = inFlight

\* no activation of announceAndConnect: its locals and results are gone
AnnIdle ==
    /\ apc' = "idle"
    /\ rvArg' = NoRendezvous
    /\ cur' = NoPeer
    /\ achk' = "none"
    /\ adec' = "none"
    /\ annRes' = "none"
    /\ advFailed' = FALSE
    /\ findFailed' = FALSE
    /\ nProc' = 0
    /\ nAtt' = 0
    /\ connFailed' = FALSE
    /\ inFlight' = inFlight

\* (variant) the test of line 112 left out
HasPreviousAlways == TRUE

\* line 112: if d.latestRendezvous != ""
HasPrevious == latestRendezvous # NoRendezvous

\* lines 112-114: the pass under the previous value runs when one is stored.
\* The finished workers are gone; their recorded results are dropped here.
AfterBootstrap ==
    /\ ~crashed
    /\ lpc = "joined"
    /\ wpc' = [i \in Workers |-> IF Running(i) THEN wpc[i] ELSE "none"]
    /\ wchk' = [i \in Workers |-> IF Running(i) THEN wchk[i] ELSE "none"]
    /\ wres' = [i \in Workers |-> "none"]
    /\ winfo' = winfo
    /\ IF HasPrevious
       THEN /\ lpc' = "prev"
            /\ prevPass' = "running"
            /\ prevArg' = latestRendezvous
            /\ passes' = passes + 1
            /\ AnnEnter(latestRendezvous)
       ELSE /\ lpc' = "rotate"
            /\ prevPass' = prevPass
            /\ prevArg' = prevArg
            /\ passes' = passes
            /\ UNCHANGED annVars
    /\ UNCHANGED << cycles, timerState, deadline >>
    /\ UNCHANGED << lastStart, lastEnd, armedAt, cancelledWaiting, rotated, extCalled >>
    /\ UNCHANGED << lookupFailed, genRv >>
    /\ UNCHANGED << cfgVars, startVars, runVars, envVars >>

\* lines 57-67: Rendezvous(), the value it returns
Rendezvous == IF OTPKey # "" THEN TOTPNow ELSE StaticRendezvous

\* (variant) the code of the next rotation window stored (a look-ahead)
RendezvousStoreAhead ==
    IF OTPKey # "" THEN << "otp", (now \div OTPInterval) + 1, KeyLength >>
    ELSE latestRendezvous

\* (variant) the returned value stored in either mode
RendezvousStoreAlways == Rendezvous

\* lines 58-66: what Rendezvous() leaves in d.latestRendezvous
RendezvousStore == IF OTPKey # "" THEN TOTPNow ELSE latestRendezvous

\* lines 57-67: Rendezvous() called from outside the refresh goroutine (the
\* method is exported); it reads and writes the fields without a lock
ExtRendezvous ==
    /\ ~crashed
    /\ latestRendezvous' = RendezvousStore
    /\ extCalled' = IF extCalled = "no" /\ rpc = "returned" THEN "late"
                    ELSE IF rpc = "returned" THEN extCalled
                    ELSE "early"
    /\ UNCHANGED << OTPKey, OTPInterval, KeyLength, BootstrapPeers, RefreshDiscoveryTime >>
    /\ UNCHANGED << lastStart, lastEnd, armedAt, cancelledWaiting, prevPass, rotated, prevArg >>
    /\ UNCHANGED << lookupFailed, passes, genRv >>
    /\ UNCHANGED << startVars, runVars, envVars, loopVars, workVars, annVars >>

\* lines 116-117: rv := d.Rendezvous(); announceAndConnect(..., rv) is entered
Rotate ==
    /\ ~crashed
    /\ lpc = "rotate"
    /\ latestRendezvous' = RendezvousStore
    /\ rotated' = TRUE
    /\ lpc' = "cur"
    /\ AnnEnter(Rendezvous)
    /\ UNCHANGED << OTPKey, OTPInterval, KeyLength, BootstrapPeers, RefreshDiscoveryTime >>
    /\ UNCHANGED << cycles, timerState, deadline >>
    /\ passes' = passes + 1
    /\ genRv' = Rendezvous
    /\ UNCHANGED << lastStart, lastEnd, armedAt, cancelledWaiting, prevPass, prevArg, extCalled >>
    /\ UNCHANGED lookupFailed
    /\ UNCHANGED << startVars, runVars, envVars, workVars >>

\* --------------------------------------------------- announceAndConnect

\* (variant) the self-identity test of line 177 left out
SkipPeerNoAddrsOnly(p) == p.NAddrs = 0

\* line 177: don't dial ourselves or peers without address
SkipPeer(p) == p.ID = HostID \/ p.NAddrs = 0

\* line 181: dial only a peer the host does not report Connected
ShouldDial(c) == c # "Connected"

\* (variant) the error of FindPeers dropped like that of Connect
AnnounceResultSwallow(advErr, findErr) == "nil"

\* (variant) an advertise error returned to the caller
AnnounceResultAdvertise(advErr, findErr) == IF advErr \/ findErr THEN "err" ELSE "nil"

\* lines 170-173 and 193: the value returned, given how the advertise call
\* and the FindPeers call went (discovery.Advertise returns nothing)
AnnounceResult(advErr, findErr) == IF findErr THEN "err" ELSE "nil"

\* announceAndConnect returns res into connect(), which drops it: after the
\* previous-value pass comes Rendezvous(), after the current-value pass
\* connect() itself returns
AnnReturn(res) ==
    /\ annRes' = res
    /\ apc' = "idle"
    /\ IF lpc = "prev"
       THEN /\ lpc' = "rotate"
            /\ prevPass' = "returned"
            /\ lastEnd' = lastEnd
       ELSE /\ lpc' = "arm"
            /\ prevPass' = prevPass
            /\ lastEnd' = now

\* line 165: discovery.Advertise(ctx, routingDiscovery, rv): the registration
\* is handed to the library, which reports nothing back
AnnAdvertise ==
    /\ ~crashed
    /\ apc = "adv"
    /\ apc' = "find"
    /\ advFailed' \in BOOLEAN
    /\ UNCHANGED << rvArg, cur, achk, adec, annRes, findFailed, nProc, nAtt, connFailed, inFlight >>
    /\ UNCHANGED << cfgVars, startVars, runVars, envVars, loopVars, workVars, histVars >>

\* lines 170-173: peerChan, err := routingDiscovery.FindPeers(ctx, rv)
AnnFindPeers ==
    /\ ~crashed
    /\ apc = "find"
    /\ \E ok \in BOOLEAN :
          /\ findFailed' = ~ok
          /\ lookupFailed' = (lookupFailed \/ ~ok)
          /\ IF ok
             THEN /\ apc' = "recv"
                  /\ UNCHANGED << annRes, lpc, prevPass, lastEnd >>
             ELSE AnnReturn(AnnounceResult(advFailed, TRUE))
    /\ UNCHANGED << rvArg, cur, achk, adec, advFailed, nProc, nAtt, connFailed, inFlight >>
    /\ UNCHANGED << cycles, timerState, deadline >>
    /\ UNCHANGED << lastStart, armedAt, cancelledWaiting, rotated, prevArg, extCalled >>
    /\ UNCHANGED << passes, genRv >>
    /\ UNCHANGED << cfgVars, startVars, runVars, envVars, workVars >>

\* lines 175-190: the channel yields peer p, which is skipped, found to be
\* connected already, or is about to be dialled
AnnRecv(p) ==
    /\ ~crashed
    /\ apc = "recv"
    /\ nProc < MaxStream
    /\ nProc' = nProc + 1
    /\ cur' = p
    /\ IF SkipPeer(p)
       THEN /\ adec' = "skip"
            /\ achk' = "none"
            /\ apc' = apc
       ELSE /\ achk' = Connectedness(p.ID)
            /\ IF ShouldDial(Connectedness(p.ID))
               THEN /\ adec' = "dial"
                    /\ apc' = "dial"
               ELSE /\ adec' = "known"
                    /\ apc' = apc
    /\ UNCHANGED << rvArg, annRes, advFailed, findFailed, nAtt, connFailed, inFlight >>
    /\ UNCHANGED << cfgVars, startVars, runVars, envVars, loopVars, workVars, histVars >>

\* line 175 and 193: the channel is closed, the range loop ends, return nil
AnnClosed ==
    /\ ~crashed
    /\ apc = "recv"
    /\ AnnReturn(AnnounceResult(advFailed, FALSE))
    /\ UNCHANGED << rvArg, cur, achk, adec, advFailed, findFailed, nProc, nAtt, connFailed, inFlight >>
    /\ UNCHANGED << cycles, timerState, deadline >>
    /\ UNCHANGED << lastStart, armedAt, cancelledWaiting, rotated, prevArg, extCalled >>
    /\ UNCHANGED << lookupFailed, passes, genRv >>
    /\ UNCHANGED << cfgVars, startVars, runVars, envVars, workVars >>

\* (variant) the dial handed to a goroutine of its own: the range loop goes
\* on to the next peer at once
ApcAfterInvokeAsync == "recv"

\* line 183: host.Connect is a synchronous call, the loop waits in it
ApcAfterInvoke == "dialing"

\* (variant) a failed host.Connect ends the range loop
ApcAfterConnectAbort(ok) == IF ok THEN "recv" ELSE "aborted"

\* lines 183-187: the outcome of host.Connect is only logged; the range loop
\* takes the next element of peerChan
ApcAfterConnect(ok) == "recv"

\* line 183: host.Connect(ctx, p) is invoked
AnnConnect ==
    /\ ~crashed
    /\ apc = "dial"
    /\ apc' = ApcAfterInvoke
    /\ nAtt' = nAtt + 1
    /\ inFlight' = inFlight + 1
    /\ UNCHANGED << rvArg, cur, achk, adec, annRes, advFailed, findFailed, nProc, connFailed >>
    /\ UNCHANGED << cfgVars, startVars, runVars, envVars, loopVars, workVars, histVars >>

\* lines 183-187: host.Connect returns; either way the loop goes on
AnnConnectDone ==
    /\ ~crashed
    /\ apc = "dialing"
    /\ \E ok \in BOOLEAN :
          /\ connected' = IF ok THEN connected \cup {cur.ID} ELSE connected
          /\ connFailed' = (connFailed \/ ~ok)
          /\ apc' = ApcAfterConnect(ok)
    /\ inFlight' = inFlight - 1
    /\ UNCHANGED << rvArg, cur, achk, adec, annRes, advFailed, findFailed, nProc, nAtt >>
    /\ UNCHANGED << now, ctxDone, crashed >>
    /\ UNCHANGED << cfgVars, startVars, runVars, loopVars, workVars, histVars >>

\* ------------------------------------------------- the refresh goroutine

\* line 127: timer := time.NewTimer(d.RefreshDiscoveryTime)
ArmTimer ==
    /\ ~crashed
    /\ lpc = "arm"
    /\ timerState' = "armed"
    /\ deadline' = NewTimerDeadline(now)
    /\ armedAt' = now
    /\ lpc' = "select"
    /\ AnnIdle
    /\ UNCHANGED << cycles, lastStart, lastEnd, cancelledWaiting, prevPass, rotated, prevArg, extCalled >>
    /\ UNCHANGED << lookupFailed, passes, genRv >>
    /\ UNCHANGED << cfgVars, startVars, runVars, envVars, workVars >>

\* (variant) a select without the ctx.Done() case
DoneReadyNever == FALSE

\* lines 128-129: the case <-ctx.Done() is ready once the context is cancelled
DoneReady == ctxDone

\* line 128: the select finds a ready case (one of them, when both are
\* ready) or parks the goroutine on both channels
SelectPoll ==
    /\ ~crashed
    /\ lpc = "select"
    /\ \/ DoneReady /\ lpc' = "sel_done"
       \/ timerState = "fired" /\ lpc' = "sel_timer"
       \/ ~ctxDone /\ timerState # "fired" /\ lpc' = "parked"
    /\ UNCHANGED << cycles, timerState, deadline >>
    /\ UNCHANGED << cfgVars, startVars, runVars, envVars, workVars, annVars, histVars >>

\* lines 129-131: timer.Stop(); return
SelectDone ==
    /\ ~crashed
    /\ lpc = "sel_done"
    /\ timerState' = IF timerState = "armed" THEN "stopped" ELSE timerState
    /\ lpc' = "stopped"
    /\ UNCHANGED << cycles, deadline >>
    /\ UNCHANGED << cfgVars, startVars, runVars, envVars, workVars, annVars, histVars >>

\* ---------------------------------------------------------- environment

\* the runtime delivers the expired timer on timer.C; a goroutine parked in
\* the select is resumed in the case of the channel that became ready first
TimerFire ==
    /\ ~crashed
    /\ timerState = "armed"
    /\ now >= deadline
    /\ timerState' = "fired"
    /\ lpc' = IF lpc = "parked" THEN "sel_timer" ELSE lpc
    /\ UNCHANGED << cycles, deadline >>
    /\ UNCHANGED << cfgVars, startVars, runVars, envVars, workVars, annVars, histVars >>

\* the governing context is cancelled
Cancel ==
    /\ ~crashed
    /\ ~ctxDone
    /\ ctxDone' = TRUE
    /\ lpc' = IF lpc = "parked" THEN "sel_done" ELSE lpc
    /\ cancelledWaiting' = (lpc \in {"select", "parked"} /\ timerState = "armed")
    /\ UNCHANGED << now, connected, crashed, cycles, timerState, deadline >>
    /\ UNCHANGED << lastStart, lastEnd, armedAt, prevPass, rotated, prevArg, extCalled >>
    /\ UNCHANGED << lookupFailed, passes, genRv >>
    /\ UNCHANGED << cfgVars, startVars, runVars, workVars, annVars >>

\* time passes
Tick ==
    /\ ~crashed
    /\ now < MaxTime
    /\ now' = now + 1
    /\ UNCHANGED << ctxDone, connected, crashed >>
    /\ UNCHANGED << cfgVars, startVars, runVars, loopVars, workVars, annVars, histVars >>

\* other activity on the host connects or disconnects peer id
NetChange(id) ==
    /\ ~crashed
    /\ connected' = IF id \in connected THEN connected \ {id} ELSE connected \cup {id}
    /\ UNCHANGED << now, ctxDone, crashed >>
    /\ UNCHANGED << cfgVars, startVars, runVars, loopVars, workVars, annVars, histVars >>

\* -------------------------------------------------------- specification
\* Run, from its entry to the start of the goroutine
RunSteps ==
    \/ RunBegin
    \/ \E p \in Procs : StartTest(p)
    \/ \E p \in Procs : StartNew(p)
    \/ \E p \in Procs : StartAssign(p)
    \/ \E p \in Procs : StartReturn(p)
    \/ RunAfterStart
    \/ RunBootstrap

\* bootstrapPeers
BootSteps ==
    \/ CycleBegin
    \/ \E i \in Workers : WorkerCheck(i)
    \/ \E i \in Workers : WorkerConnect(i)
    \/ \E i \in Workers : WorkerDone(i)
    \/ BootstrapJoin

\* the rest of connect(): the announce passes around Rendezvous()
AnnSteps ==
    \/ AfterBootstrap
    \/ Rotate
    \/ AnnAdvertise
    \/ AnnFindPeers
    \/ \E p \in PeerInfos : AnnRecv(p)
    \/ AnnClosed
    \/ AnnConnect
    \/ AnnConnectDone

\* the wait between two cycles
WaitSteps ==
    \/ ArmTimer
    \/ SelectPoll
    \/ SelectDone
    \/ TimerFire

\* The whole program with its whole environment.
Next ==
    \/ RunSteps
    \/ OptionCall
    \/ BootSteps
    \/ AnnSteps
    \/ WaitSteps
    \/ CycleRepeat
    \/ Cancel
    \/ Tick
    \/ ExtRendezvous
    \/ \E id \in PeerIDs : NetChange(id)

Spec == Init /\ [][Next]_vars

\* Start-up: Run and the routing Option callback, both through startDHT.
NextStart == RunSteps \/ OptionCall
SpecStart == Init /\ [][NextStart]_vars

\* Start-up with the calls of startDHT one after the other: the routing
\* callback and Run never inside startDHT at the same time.
NoActivation(p) == spc[p] \in {"idle", "ret"}
SeqOptionCall == NoActivation("run") /\ OptionCall
SeqRunBegin == NoActivation("opt") /\ RunBegin
NextSeq ==
    \/ SeqOptionCall
    \/ SeqRunBegin
    \/ \E p \in Procs : StartTest(p)
    \/ \E p \in Procs : StartNew(p)
    \/ \E p \in Procs : StartAssign(p)
    \/ \E p \in Procs : StartReturn(p)
    \/ RunAfterStart
    \/ RunBootstrap
SpecSeq == Init /\ [][NextSeq]_vars

\* One call of bootstrapPeers on any bootstrap list, while other activity
\* on the host changes the connection state.
NextBoot == RunSteps \/ BootSteps \/ (\E id \in PeerIDs : NetChange(id))
SpecBoot == Init /\ [][NextBoot]_vars

\* The session scheduled over time with the default bootstrap list: cycles,
\* timer, clock and cancellation.
InitSched == InitCfg(OTPKeys, { <<>> }, RefreshTimes)
NextSched == RunSteps \/ BootSteps \/ AnnSteps \/ WaitSteps \/ Cancel \/ Tick
SpecSched == InitSched /\ [][NextSched]_vars

\* The scheduled session while other code calls Rendezvous() at any time,
\* before, during and after Run; every lookup fails to start or finds nobody.
NextRot ==
    \/ RunSteps
    \/ BootSteps
    \/ AfterBootstrap
    \/ Rotate
    \/ AnnAdvertise
    \/ AnnFindPeers
    \/ AnnClosed
    \/ WaitSteps
    \/ Cancel
    \/ Tick
    \/ ExtRendezvous
SpecRot == InitSched /\ [][NextRot]_vars

\* The refresh goroutine left to run for ever. Every goroutine that can take
\* a step eventually takes it and every call into the host or the substrate
\* returns (weak fairness); the runtime delivers an expired timer (weak
\* fairness); a select with several ready cases picks one at random, so a
\* case that is ready again and again is eventually picked (strong fairness
\* of the ctx.Done() case).
WorkerStep(i) == WorkerCheck(i) \/ WorkerConnect(i) \/ WorkerDone(i)
SelectCtxDone == SelectPoll /\ lpc' = "sel_done"
FairEnv ==
    /\ \A i \in Workers : WF_vars(WorkerStep(i))
    /\ WF_vars(SelectPoll)
    /\ SF_vars(SelectCtxDone)
    /\ WF_vars(TimerFire)

\* Tear-down: the session with all of its calls, cancelled at any moment.
\* The clock stands still, so a timer of length zero expires at once and a
\* longer one never does.
StopStep ==
    \/ CycleBegin
    \/ CycleRepeat
    \/ BootstrapJoin
    \/ AnnSteps
    \/ ArmTimer
    \/ SelectDone
NextStop == RunSteps \/ BootSteps \/ AnnSteps \/ WaitSteps \/ Cancel \/ CycleRepeat
SpecStop == InitSched /\ [][NextStop]_vars /\ WF_vars(StopStep) /\ FairEnv

\* Scheduling for ever: the session over time, every lookup failing to start
\* or finding nobody; time passes (weak fairness of the clock).
LiveStep ==
    \/ CycleBegin
    \/ CycleRepeat
    \/ BootstrapJoin
    \/ AfterBootstrap
    \/ Rotate
    \/ AnnAdvertise
    \/ AnnFindPeers
    \/ AnnClosed
    \/ ArmTimer
    \/ SelectDone
NextLive ==
    \/ RunSteps
    \/ BootSteps
    \/ AfterBootstrap
    \/ Rotate
    \/ AnnAdvertise
    \/ AnnFindPeers
    \/ AnnClosed
    \/ WaitSteps
    \/ Cancel
    \/ Tick
    \/ CycleRepeat
SpecLive == InitSched /\ [][NextLive]_vars /\ WF_vars(LiveStep) /\ FairEnv /\ WF_vars(Tick)

\* The announce passes of the cycles, while other activity on the host
\* changes the connection state; the timer length is zero.
InitAnn == InitCfg(OTPKeys, { <<>> }, {0})
NextAnn ==
    RunSteps \/ BootSteps \/ AnnSteps \/ WaitSteps \/ Cancel \/ (\E id \in PeerIDs : NetChange(id))
SpecAnn == InitAnn /\ [][NextAnn]_vars

\* =============================================================== claims

CycleBody == {"boot", "joined", "prev", "rotate", "cur"}

\* C1: cycles of one session never overlap and never burst. A cycle after
\* the first starts only from the timer case of the select, and then the
\* timer has fired, it was armed after the previous cycle completed, a full
\* RefreshDiscoveryTime has passed since that completion, and nothing of the
\* previous cycle (bootstrap worker, announce pass) is still in progress.
C1_CyclesSpacedByOneShotTimer ==
    /\ lpc = "sel_timer" =>
          /\ timerState = "fired"
          /\ armedAt >= lastEnd
          /\ now >= lastEnd + RefreshDiscoveryTime
          /\ apc = "idle"
          /\ \A i \in Workers : ~Running(i)
    /\ (cycles >= 2 /\ lpc \in CycleBody) => lastStart >= lastEnd + RefreshDiscoveryTime

\* C1 witness: a cycle that took longer than RefreshDiscoveryTime has
\* completed and the timer armed after it has fired and been selected.
C1_Witness ==
    /\ lpc = "sel_timer"
    /\ RefreshDiscoveryTime > 0
    /\ lastEnd - lastStart > RefreshDiscoveryTime

\* C2: once the context is cancelled while the loop waits (timer armed and
\* not yet expired), no further cycle executes: the loop only goes through
\* the Done case to Stopped.
C2_NoCycleAfterCancelWhileWaiting ==
    cancelledWaiting => lpc \in {"select", "parked", "sel_done", "stopped"}

\* C3: the routing handle is created at most once: dht.New succeeds at most
\* once, and the callers of startDHT that returned without error all hold
\* the same handle.
C3_HandleCreatedAtMostOnce ==
    /\ newCount <= 1
    /\ \A p, q \in Procs :
          (spc[p] = "ret" /\ spc[q] = "ret" /\ ~sret[p].err /\ ~sret[q].err)
             => sret[p].h = sret[q].h

\* C4: within a cycle the steps are strictly ordered: no announce step is
\* active while a bootstrap worker is running, and the pass under the
\* previous value, when it runs, has returned before Rendezvous() is called
\* and before the pass under the current value begins.
C4_CycleStepsOrdered ==
    /\ (apc # "idle" \/ lpc \in {"prev", "rotate", "cur"}) => \A i \in Workers : ~Running(i)
    /\ rotated => prevPass # "running"
    /\ lpc = "cur" => (rotated /\ prevPass # "running")
    /\ lpc = "prev" => (~rotated /\ prevPass = "running")

\* C4 witness: in a cycle whose previous-value pass has returned, the
\* current-value pass is consuming the lookup stream.
C4_Witness ==
    /\ lpc = "cur"
    /\ prevPass = "returned"
    /\ apc = "recv"

\* C5: bootstrapPeers returns only after every attempt it launched has
\* finished: a worker runs only while bootstrapPeers is waiting; when it
\* returns every launched worker is done, having skipped a connected peer or
\* having finished its attempt with success or failure; and the only thing
\* that takes the caller down is a worker's panic, never a failed attempt.
C5_BootstrapReturnsAfterAllAttempts ==
    /\ \A i \in Workers : Running(i) => lpc = "boot"
    /\ lpc = "joined" =>
          \A i \in Launched :
             /\ wpc[i] = "done"
             /\ wres[i] \in {"skipped", "ok", "failed"}
             /\ (wres[i] = "skipped") <=> (wchk[i] = "Connected")
    /\ crashed => \E i \in Launched : wpc[i] = "panicked" /\ winfo[i].nil

\* C5 witness: bootstrapPeers has returned after one attempt failed and
\* another succeeded.
C5_Witness ==
    /\ lpc = "joined"
    /\ \E i, j \in Launched : wres[i] = "failed" /\ wres[j] = "ok"

\* C6 (as claimed): a bootstrap worker never invokes host.Connect for a peer
\* that is Connected at the moment of the invocation.
C6_NeverDialsConnectedPeer ==
    [][ \A i \in Workers :
           (wpc[i] = "checked" /\ wpc'[i] = "dialing") => winfo[i].ID \notin connected ]_vars

\* C6 (amended): a bootstrap worker invokes host.Connect only for a peer that
\* its own Connectedness check, made just before, reported as not Connected.
C6_DialsOnlyAfterNotConnectedCheck ==
    \A i \in Workers :
       (wpc[i] \in {"checked", "dialing"} \/ wres[i] \in {"ok", "failed"})
          => wchk[i] = "NotConnected"

\* C6 witness: a worker's Connect is in flight for a peer that its check
\* reported not Connected and that other activity has connected since.
C6_Witness ==
    \E i \in Workers :
       wpc[i] = "dialing" /\ wchk[i] = "NotConnected" /\ winfo[i].ID \in connected

\* C7: a bootstrap address that does not parse is skipped without failing:
\* the process survives and the worker of such an entry finishes without an
\* attempt.
C7_MalformedEntrySkipped ==
    /\ ~crashed
    /\ \A i \in Workers :
          (winfo[i].nil /\ wpc[i] # "none") => wpc[i] \in {"start", "done"}

\* C8: announceAndConnect returns an error exactly when FindPeers failed to
\* start, and then no peer was processed and no connection attempted; a
\* failed connection to a discovered peer never makes it return an error.
C8_ErrorOnlyWhenLookupFailsToStart ==
    /\ annRes # "none" => (annRes = "err" <=> findFailed)
    /\ findFailed => (apc = "idle" /\ annRes = "err" /\ nProc = 0 /\ nAtt = 0)
    /\ (connFailed /\ ~findFailed /\ annRes # "none") => annRes = "nil"

\* C8 witness: a pass has returned the error of FindPeers.
C8_Witness ==
    /\ annRes = "err"
    /\ findFailed
    /\ lpc \in {"rotate", "arm"}

\* C8, second case reached: a pass with a failed connection returned nil.
C8_ConnectFailureCase ==
    /\ annRes = "nil"
    /\ connFailed

C10_DialsOnlyEligiblePeers ==
    /\ apc \in {"dial", "dialing"} =>
          /\ adec = "dial"
          /\ cur.ID # HostID
          /\ cur.NAddrs > 0
          /\ achk = "NotConnected"
    /\ adec = "skip" <=> (cur # NoPeer /\ (cur.ID = HostID \/ cur.NAddrs = 0))
    /\ adec = "known" <=> (cur # NoPeer /\ cur.ID # HostID /\ cur.NAddrs > 0 /\ achk = "Connected")
    /\ adec = "dial" <=> (cur # NoPeer /\ cur.ID # HostID /\ cur.NAddrs > 0 /\ achk = "NotConnected")
    /\ nAtt <= nProc

\* C10 witness: in a pass that has dialled a peer, the host's own identity,
\* yielded with an address, has been skipped.
C10_Witness ==
    /\ adec = "skip"
    /\ cur.ID = HostID
    /\ cur.NAddrs > 0
    /\ nAtt >= 1

\* C11 (as claimed): in every cycle that runs the previous-value pass, the
\* value announced in it is the value of the rotation window immediately
\* before the window of the value of the same cycle's current pass.
C11_PreviousPassIsPrecedingWindow ==
    (lpc = "cur" /\ prevPass = "returned") => prevArg[2] = rvArg[2] - 1

\* C11 (amended): latestRendezvous only ever holds a generated rotating
\* value, of a window that is not in the future, and is never cleared; the
\* previous-value pass announces the value stored last, whose window is the
\* window of the cycle's current value or any earlier one.
C11_PreviousPassIsLastStoredValue ==
    /\ [](latestRendezvous # NoRendezvous =>
            (latestRendezvous[1] = "otp" /\ latestRendezvous[2] <= now \div OTPInterval))
    /\ []((lpc = "cur" /\ prevPass = "returned") =>
            (prevArg # NoRendezvous /\ prevArg[1] = "otp" /\ prevArg[2] <= rvArg[2]))
    /\ [][latestRendezvous # NoRendezvous => latestRendezvous' # NoRendezvous]_vars
    /\ [][(lpc = "joined" /\ lpc' = "prev") => rvArg' = latestRendezvous]_vars

\* C11 witness: the current pass runs under the value of the same window
\* as the previous-value pass of its cycle.
C11_Witness ==
    /\ lpc = "cur"
    /\ prevPass = "returned"
    /\ prevArg[1] = "otp"
    /\ prevArg[2] = rvArg[2]

\* C12: in static mode (no OTPKey) Rendezvous() always returns the configured
\* RendezvousString and changes no field: latestRendezvous stays empty, so
\* the previous-value pass never runs, every current pass is under the
\* static value, and a call from outside or from the cycle leaves every
\* field of the session as it was.
C12_StaticModeIsPure ==
    /\ [](OTPKey = "" =>
            /\ Rendezvous = StaticRendezvous
            /\ latestRendezvous = NoRendezvous
            /\ prevPass = "none"
            /\ (lpc = "cur" => rvArg = StaticRendezvous))
    /\ [][(OTPKey = "" /\ ExtRendezvous) => UNCHANGED << cfgVars, dht >>]_vars
    /\ [][(OTPKey = "" /\ lpc = "rotate" /\ lpc' = "cur") =>
             (rvArg' = StaticRendezvous /\ UNCHANGED << cfgVars, dht >>)]_vars

\* C12 witness: in static mode, after a call of Rendezvous() from outside,
\* a second cycle announces under the static value.
C12_Witness ==
    /\ OTPKey = ""
    /\ extCalled # "no"
    /\ cycles >= 2
    /\ lpc = "cur"
    /\ rvArg = StaticRendezvous

\* C13: no rotating rendezvous value is ever generated with a digit count of
\* 0, whatever the order of the calls of Rendezvous() and Run().
C13_NoValueWithZeroDigits ==
    /\ latestRendezvous # NoRendezvous => latestRendezvous[3] # 0
    /\ (OTPKey # "" /\ rvArg # NoRendezvous) => rvArg[3] # 0

\* C14 (as stated): Run returns an error and starts no refresh loop exactly
\* when the creation of the routing handle fails; a failure of the
\* substrate's bootstrap call still starts the loop and returns success.
C14_AbortsOnlyOnHandleFailure ==
    /\ rpc = "failed" => sret["run"].err
    /\ (rpc \in {"failed", "returned"} /\ ~sret["run"].err) =>
          (rpc = "returned" /\ lpc # "none")

\* C14 (amended): Run returns an error and starts no refresh loop exactly
\* when the creation of the routing handle fails or the substrate's
\* bootstrap call fails; in every other case it starts the loop and returns
\* success, and the loop only ever runs after a successful return.
C14_AbortsOnHandleOrBootstrapFailure ==
    /\ rpc = "failed" =>
          /\ sret["run"].err \/ bootErr
          /\ lpc = "none"
          /\ cycles = 0
    /\ rpc = "returned" =>
          /\ ~sret["run"].err
          /\ ~bootErr
          /\ lpc # "none"
    /\ lpc # "none" => rpc = "returned"
    /\ (bootErr \/ (rpc \in {"bootstrap", "failed", "returned"} /\ sret["run"].err)) =>
          rpc = "failed"

\* C14 witness: the handle was created, the bootstrap call failed, and Run
\* has returned the error without starting the loop.
C14_Witness ==
    /\ rpc = "failed"
    /\ ~sret["run"].err
    /\ bootErr
    /\ kademliaDHT # 0
    /\ lpc = "none"

\* C15: once the context is cancelled the refresh loop eventually reaches
\* Stopped and stays there (every call returning), and in Stopped no
\* bootstrap worker, announce pass or timer of the session is active.
C15_CancelTearsDown ==
    /\ (ctxDone /\ lpc # "none") ~> [](lpc = "stopped")
    /\ [](lpc = "stopped" =>
            /\ \A i \in Workers : ~Running(i)
            /\ apc = "idle"
            /\ timerState # "armed")

\* C15 witness: the loop stopped after a cancellation that found it between
\* two cycles, with the timer it had armed stopped.
C15_Witness ==
    /\ lpc = "stopped"
    /\ ctxDone
    /\ cycles >= 1
    /\ timerState = "stopped"

\* C16: after a successful Run the first cycle starts with no timer ever
\* created; while the context is not cancelled a new cycle eventually
\* starts after every completed cycle (every call returning, time passing);
\* a cycle whose lookup failed to start leaves the scheduler running and is
\* followed by a wait of exactly RefreshDiscoveryTime, with no back-off.
C16_SchedulerKeepsGoing ==
    /\ [][(lpc = "connect" /\ lpc' # "connect") =>
             (lpc' = "boot" /\ cycles' = 1 /\ timerState = "none")]_vars
    /\ (lpc = "connect") ~> (lpc = "boot")
    /\ (lpc = "arm") ~> (timerState = "armed")
    /\ (timerState = "armed" /\ deadline <= MaxTime) ~> (lpc = "boot" \/ ctxDone)
    /\ [](lpc = "stopped" => ctxDone)
    /\ []((lookupFailed /\ timerState = "armed") =>
            deadline = armedAt + RefreshDiscoveryTime)
    /\ [][(lookupFailed /\ lpc = "sel_timer" /\ lpc' = "boot") =>
             now >= lastEnd + RefreshDiscoveryTime]_vars

\* C16 witness: a second cycle under way after a first one whose lookup
\* failed to start, one nonzero refresh interval later.
C16_Witness ==
    /\ cycles = 2
    /\ lookupFailed
    /\ lpc = "arm"
    /\ RefreshDiscoveryTime > 0
    /\ lastStart = RefreshDiscoveryTime

InPass == {"recv", "dial", "dialing"}

\* C17: a failed connection attempt does not end the consumption of the
\* lookup stream: after it the run is still receiving (or has returned nil
\* at the close of the stream), every peer received after the failure is
\* examined and dialled exactly when eligible, and a run that has its
\* stream ends only by the stream being closed, also with no peer received.
C17_FailedConnectDoesNotAbort ==
    /\ [](connFailed => (apc \in InPass \/ (apc = "idle" /\ annRes = "nil")))
    /\ [][(connFailed /\ nProc' = nProc + 1) =>
             /\ adec' \in {"skip", "known", "dial"}
             /\ (adec' = "dial") = (~SkipPeer(cur') /\ ShouldDial(Connectedness(cur'.ID)))
             /\ (adec' = "dial") = (apc' = "dial")]_vars
    /\ [][(apc \in InPass /\ apc' \notin InPass) =>
             (AnnClosed /\ annRes' = "nil")]_vars

\* C17 witness: a second peer is being dialled after the connection attempt
\* to the first one failed.
C17_Witness ==
    /\ connFailed
    /\ nProc = 2
    /\ nAtt = 2
    /\ apc = "dialing"

\* C18: the connection attempts of an announce run are sequential: at most
\* one is in flight, none is while the run is not inside host.Connect, and
\* the next peer is taken from the stream only with none in flight.
C18_DialsAreSequential ==
    /\ [](inFlight \in {0, 1})
    /\ [](inFlight = 1 <=> apc = "dialing")
    /\ [][nProc' = nProc + 1 => (inFlight = 0 /\ inFlight' = 0)]_vars

\* C18 witness: the second attempt of a run is in flight, the first one over.
C18_Witness ==
    /\ inFlight = 1
    /\ nAtt = 2
    /\ cur.ID # HostID

\* connect() has returned: the cycle counted by cycles is complete
CycleOver == lpc \in {"arm", "select", "parked", "sel_timer", "sel_done", "stopped"}

\* C19 (as stated): with no call of Rendezvous() before Run, a complete
\* cycle has run one pass in static mode, one pass as the first cycle of
\* rotating mode and two passes as a later cycle of rotating mode, and the
\* previous-value pass announces the value generated by the preceding cycle.
C19_PassesWithNoCallBeforeRun ==
    extCalled \in {"no", "late"} =>
        /\ (CycleOver /\ OTPKey = "") => passes = 1
        /\ (CycleOver /\ OTPKey # "" /\ cycles = 1) => passes = 1
        /\ (CycleOver /\ OTPKey # "" /\ cycles >= 2) => passes = 2
        /\ lpc = "prev" => rvArg = genRv

\* C19 (amended): the same, with no call of Rendezvous() from outside the
\* refresh loop at all, before Run or after it.
C19_PassesWithNoOutsideCall ==
    extCalled = "no" =>
        /\ (CycleOver /\ OTPKey = "") => (passes = 1 /\ prevPass = "none")
        /\ (CycleOver /\ OTPKey # "" /\ cycles = 1) => (passes = 1 /\ prevPass = "none")
        /\ (CycleOver /\ OTPKey # "" /\ cycles >= 2) => (passes = 2 /\ prevPass = "returned")
        /\ lpc = "prev" => (rvArg = genRv /\ cycles >= 2 /\ passes = 1)
        /\ lpc = "cur" => (rvArg = genRv /\ rotated)

\* C19 witness: a second cycle of rotating mode complete after two passes,
\* Rendezvous() never called from outside.
C19_Witness ==
    /\ extCalled = "no"
    /\ OTPKey # ""
    /\ cycles = 2
    /\ lpc = "arm"
    /\ passes = 2
    /\ prevPass = "returned"

\* C20: for calls of startDHT that do not overlap: a call whose construction
\* fails returns the error and leaves the handle unset, and a later call
\* constructs again; once the handle is set no call invokes the constructor,
\* every call returns that handle, and the handle is never replaced.
C20_SequentialStartIsIdempotent ==
    /\ [](newCount <= 1)
    /\ [](\A p \in Procs : (spc[p] = "ret" /\ sret[p].err) => sret[p].h = 0)
    /\ [](\A p \in Procs : (spc[p] = "ret" /\ ~sret[p].err) =>
                               (sret[p].h = dht /\ dht # 0))
    /\ [][\A p \in Procs : (spc[p] = "new" /\ spc'[p] = "ret") =>
                               (sret'[p].err /\ dht' = 0)]_vars
    /\ [][\A p \in Procs : (spc[p] = "test" /\ spc'[p] # "test") =>
                               (spc'[p] = "new") = (dht = 0)]_vars
    /\ [][dht # 0 => dht' = dht]_vars

\* C20 witness: a call that found the handle of an earlier successful call
\* has returned it; the constructor ran once.
C20_Witness ==
    /\ \A p \in Procs : spc[p] = "ret" /\ ~sret[p].err /\ sret[p].h = dht
    /\ dht # 0
    /\ newCount = 1

====
